---- MODULE Spec2Model ----
(***************************************************************************)
(* Model of src/python/CSv1-OL8-IRS422.py: the 4-byte command encoders,    *)
(* the batched transaction engine Csv1Device._send over the serial and TCP *)
(* transports, and main's demo sequence with the SIGINT handler it         *)
(* installs.                                                               *)
(*                                                                         *)
(*   Spec     the whole program: main, sigint_handler, teardown            *)
(*   SpecSend one call of _send on an arbitrary batch                      *)
(*   SpecEnc  the command builders and the batch-building facade calls     *)
(***************************************************************************)
EXTENDS Integers, Sequences, FiniteSets, TLC

VARIABLES
    stack,      \* activation records of the Python thread, innermost last
    exc,        \* exception propagating between frames (SystemExit), or NoExc
    proc,       \* "running" | "exiting" (finalising) | "terminated"
    exitCode,   \* exit status of the process, -1 while it runs
    installed,  \* signal.signal(SIGINT, sigint_handler) has run
    dev,        \* the Csv1Device object: "none" | "live"
    tkind,      \* which transport create_transport chose: "Serial" | "TCP"
    isOpen,     \* the channel (serial port / socket) is open
    closeOps,   \* number of port.close() / socket.close() operations performed
    rx,         \* bytes the device has answered that no read has consumed yet
    sigints,    \* invocations of sigint_handler so far
    badLeft,    \* non-zero status words the device may still answer with
    kaCount,    \* main's keepalive_count
    encIn,      \* SpecEnc: the operation and arguments under test
    encOut,     \* SpecEnc: what the builder returned (or raised)
    target      \* the connection target string, as the sequence of its characters

progVars == <<stack, exc, proc, exitCode, installed, dev, tkind, isOpen,
              closeOps, rx, sigints, badLeft, kaCount, target>>
encVars == <<encIn, encOut, target>>
vars == <<stack, exc, proc, exitCode, installed, dev, tkind, isOpen,
          closeOps, rx, sigints, badLeft, kaCount, encIn, encOut, target>>

(***************************************************************************)
(* Bounds of the model.                                                    *)
(***************************************************************************)
MaxSigint == 1
MaxBadStatus == 2
MaxDemoBadStatus == 1
MaxKeepalive == 1
MaxBatch == 3
MaxVals == 2
TimeoutUnits == 2
MaxTimedBatch == 2
MaxCalls == 2
MaxSessionBatch == 2
MaxSessionBad == 1

(***************************************************************************)
(* create_transport (lines 101-128).  A target string is the sequence of   *)
(* its characters.                                                         *)
(***************************************************************************)
Digits == {"0", "1", "2", "3", "4", "5", "6", "7", "8", "9"}

\* s[i..j] is made of \d characters only.
AllDigits(s, i, j) == \A k \in i..j : s[k] \in Digits

\* Where $ matches in re.match without re.MULTILINE: at the end of the
\* string, and just before a newline that ends the string.
Ends(s) ==
    {Len(s)} \cup (IF Len(s) > 0 /\ s[Len(s)] = "\n" THEN {Len(s) - 1} ELSE {})

\* re.match(tcp_pattern, target), lines 105 and 108:
\* ^(\d{1,3}\.\d{1,3}\.\d{1,3}\.\d{1,3}):(\d+)$ with the dots at d1, d2, d3,
\* the colon at c and the match ending at e.
tcp_match(s) ==
    \E d1 \in 2..4 : \E d2 \in (d1 + 2)..(d1 + 4) : \E d3 \in (d2 + 2)..(d2 + 4) :
    \E c \in (d3 + 2)..(d3 + 4) : \E e \in Ends(s) :
        /\ c < e
        /\ s[d1] = "." /\ s[d2] = "." /\ s[d3] = "." /\ s[c] = ":"
        /\ AllDigits(s, 1, d1 - 1) /\ AllDigits(s, d1 + 1, d2 - 1)
        /\ AllDigits(s, d2 + 1, d3 - 1) /\ AllDigits(s, d3 + 1, c - 1)
        /\ AllDigits(s, c + 1, e)

\* re.match(tcp_ipv6_pattern, target), lines 106 and 109: ^\[([^\]]+)\]:(\d+)$
\* with the closing bracket at c and the match ending at e.
tcp_ipv6_match(s) ==
    \E c \in 3..Len(s) : \E e \in Ends(s) :
        /\ c + 1 < e
        /\ s[1] = "[" /\ s[c] = "]" /\ s[c + 1] = ":"
        /\ \A k \in 2..(c - 1) : s[k] # "]"
        /\ AllDigits(s, c + 2, e)

\* The transport create_transport returns for a target (lines 111-128); int()
\* of the port group, a run of digits, does not fail.
create_transport(s) ==
    IF tcp_match(s) THEN "TCP"
    ELSE IF tcp_ipv6_match(s) THEN "TCP"
    ELSE "Serial"

\* The targets of the usage examples "COM5" (line 239) and "[::1]:8080"
\* (line 244).
DemoTargets == { <<"C", "O", "M", "5">>,
                 <<"[", ":", ":", "1", "]", ":", "8", "0", "8", "0">> }

(***************************************************************************)
(* Command encoder (lines 143-165).                                        *)
(***************************************************************************)
\* What a builder yields when struct.pack raises struct.error.
StructError == <<"struct.error">>

\* A mutant of pack_BBH: the 16-bit value packed little-endian.
pack_BBH_le(b0, b1, h) ==
    IF b0 \in 0..255 /\ b1 \in 0..255 /\ h \in 0..65535
    THEN <<b0, b1, h % 256, h \div 256>>
    ELSE StructError

\* A mutant of pack_BBH: out-of-range fields wrapped to their width.
pack_BBH_wrap(b0, b1, h) ==
    <<b0 % 256, b1 % 256, (h % 65536) \div 256, h % 256>>

\* struct.pack(">BBH", b0, b1, h): two unsigned bytes and a big-endian
\* unsigned 16-bit value; a field outside its range raises struct.error.
pack_BBH(b0, b1, h) ==
    IF b0 \in 0..255 /\ b1 \in 0..255 /\ h \in 0..65535
    THEN <<b0, b1, h \div 256, h % 256>>
    ELSE StructError

\* table & 0x03 on a Python int (two's complement of unbounded width).
and3(table) == table % 4

cmd_direct(channel, value) == pack_BBH(channel, 0, value)

cmd_bind_table(channel, table) == pack_BBH(channel, 16 + and3(table), 0)

cmd_write_table(table, offset, value) == pack_BBH(16 + and3(table), offset, value)

cmd_set_offset(offset) == pack_BBH(255, offset, 0)

cmd_gpio(channel, state) == pack_BBH(254, channel, IF state THEN 1 ELSE 0)

cmd_keepalive == pack_BBH(253, 0, 0)

cmd_ldac == pack_BBH(252, 0, 0)

cmd_register(register, value) == pack_BBH(251, register, value)

\* A mutant of write_table_cmds: every entry is given the first offset.
write_table_cmds_same_offset(table, offset, values_be) ==
    LET cmds == [i \in 1..Len(values_be) |->
                    cmd_write_table(table, offset, values_be[i])]
        raised == \E i \in 1..Len(values_be) : cmds[i] = StructError
    IN [raised |-> raised, cmds |-> IF raised THEN <<>> ELSE cmds]

\* The batch write_table builds (lines 175-177): one entry per value, the
\* offset counting up.  A builder that raises ends the call before _send.
write_table_cmds(table, offset, values_be) ==
    LET cmds == [i \in 1..Len(values_be) |->
                    cmd_write_table(table, offset + (i - 1), values_be[i])]
        raised == \E i \in 1..Len(values_be) : cmds[i] = StructError
    IN [raised |-> raised, cmds |-> IF raised THEN <<>> ELSE cmds]

\* A mutant of cfg_rs422_cmds: the low half goes to register 1, the high
\* half to register 2.
cfg_rs422_cmds_swapped(hi, lo) ==
    LET cmds == <<cmd_register(1, lo), cmd_register(2, hi)>>
        raised == cmds[1] = StructError \/ cmds[2] = StructError
    IN [raised |-> raised, cmds |-> IF raised THEN <<>> ELSE cmds]

\* The batch cfg_rs422 builds (lines 196-199).  speed is held as
\* hi * 65536 + lo with lo in 0..65535, so speed >> 16 is hi and
\* speed & 0xffff is lo (speeds of 2^32 and more do not fit a TLC integer).
cfg_rs422_cmds(hi, lo) ==
    LET cmds == <<cmd_register(1, hi), cmd_register(2, lo)>>
        raised == cmds[1] = StructError \/ cmds[2] = StructError
    IN [raised |-> raised, cmds |-> IF raised THEN <<>> ELSE cmds]

(***************************************************************************)
(* Errors.  A message is the sequence of its pieces, so that formatting an *)
(* error into another one's message (f"...: {e}") is concatenation; the    *)
(* numbers a message prints are kept beside it.                            *)
(***************************************************************************)
NoErr == [type |-> "none", msg |-> <<>>, code |-> -1, expected |-> -1, got |-> -1]

Err(type, msg) == [type |-> type, msg |-> msg, code |-> -1, expected |-> -1, got |-> -1]

NoExc == [type |-> "none", code |-> -1]

SystemExit(code) == [type |-> "SystemExit", code |-> code]

\* What the channel's own write can raise (pyserial's port.write, the
\* socket's sendall); on a closed channel it always raises.
RawWriteErrors(kind, open) ==
    IF kind = "Serial"
    THEN IF open
         THEN {Err("SerialTimeoutException", <<"Write timeout">>),
               Err("SerialException", <<"write failed">>)}
         ELSE {Err("PortNotOpenError", <<"Attempting to use a port that is not open">>)}
    ELSE IF open
         THEN {Err("socket.timeout", <<"timed out">>),
               Err("ConnectionResetError", <<"[Errno 104] Connection reset by peer">>)}
         ELSE {Err("OSError", <<"[Errno 9] Bad file descriptor">>)}

\* What the channel's own read can raise (port.read, socket.recv) other than
\* the socket's timeout, which TcpTransport.read turns into a short result.
RawReadErrors(kind, open) ==
    IF kind = "Serial"
    THEN IF open
         THEN {Err("SerialException", <<"read failed">>)}
         ELSE {Err("PortNotOpenError", <<"Attempting to use a port that is not open">>)}
    ELSE IF open
         THEN {Err("ConnectionResetError", <<"[Errno 104] Connection reset by peer">>)}
         ELSE {Err("OSError", <<"[Errno 9] Bad file descriptor">>)}

\* The except clauses of TcpTransport.write (lines 72-75); SerialTransport.write
\* (line 39) lets the error through.
transport_write_error(kind, e) ==
    IF kind = "Serial" THEN e
    ELSE IF e.type = "socket.timeout"
         THEN Err("SerialTimeoutException", <<"Write timeout">>)
         ELSE [e EXCEPT !.type = "IOError", !.msg = <<"TCP write error: ">> \o e.msg]

\* The last except clause of TcpTransport.read (lines 88-89); SerialTransport.read
\* (line 42) lets the error through.
transport_read_error(kind, e) ==
    IF kind = "Serial" THEN e
    ELSE [e EXCEPT !.type = "IOError", !.msg = <<"TCP read error: ">> \o e.msg]

\* A mutant of send_except: the error is re-raised as it is.
send_except_asis(e) == e

\* A mutant of send_except: a timeout exception is re-raised as it is, only
\* the other errors become IOError.
send_except_timeout_asis(e) ==
    IF e.type \in {"socket.timeout", "SerialTimeoutException"}
    THEN e
    ELSE [e EXCEPT !.type = "IOError", !.msg = <<"Communication error: ">> \o e.msg]

\* The except clauses of _send (lines 218-221).
send_except(e) ==
    IF e.type \in {"socket.timeout", "SerialTimeoutException"}
    THEN [e EXCEPT !.type = "IOError", !.msg = <<"Communication timeout: ">> \o e.msg]
    ELSE [e EXCEPT !.type = "IOError", !.msg = <<"Communication error: ">> \o e.msg]

(***************************************************************************)
(* The transaction engine's pure parts (lines 201-216).                    *)
(***************************************************************************)
STATUS_OK == 0

RECURSIVE join_rev(_)
\* A mutant of join: the commands concatenated last first.
join_rev(commands) ==
    IF commands = <<>> THEN <<>>
    ELSE join_rev(Tail(commands)) \o Head(commands)

RECURSIVE join(_)
\* b"".join(commands)
join(commands) ==
    IF commands = <<>> THEN <<>>
    ELSE Head(commands) \o join(Tail(commands))

\* The size _send asks transport.read for (line 205).
read_size(commands) == Len(commands) * 2

\* struct.unpack(">H", b)[0]
unpack_H(b) == b[1] * 256 + b[2]

RECURSIVE status_scan_last(_, _, _)
\* A mutant of status_scan: the scan goes on after a non-zero status word and
\* reports the last one.
status_scan_last(rsp, i, seen) ==
    IF i > Len(rsp)
    THEN [st |-> "ok", err |-> NoErr, checked |-> seen]
    ELSE LET status == unpack_H(SubSeq(rsp, i, i + 1))
             rest == status_scan_last(rsp, i + 2, seen + 1)
         IN IF status # STATUS_OK /\ rest.st = "ok"
            THEN [st |-> "err",
                  err |-> [Err("IOError", <<"Device returned status">>)
                              EXCEPT !.code = status],
                  checked |-> seen + 1]
            ELSE rest

RECURSIVE status_scan(_, _, _)
\* The loop of lines 213-216 from byte i on (1-based), seen words unpacked so
\* far: the first non-zero status word raises.
status_scan(rsp, i, seen) ==
    IF i > Len(rsp)
    THEN [st |-> "ok", err |-> NoErr, checked |-> seen]
    ELSE LET status == unpack_H(SubSeq(rsp, i, i + 1))
         IN IF status # STATUS_OK
            THEN [st |-> "err",
                  err |-> [Err("IOError", <<"Device returned status">>)
                              EXCEPT !.code = status],
                  checked |-> seen + 1]
            ELSE status_scan(rsp, i + 2, seen + 1)

\* A mutant of send_check: a short response is not told from a full one.
send_check_nolen(commands, rsp) ==
    LET r == status_scan(SubSeq(rsp, 1, 2 * (Len(rsp) \div 2)), 1, 0)
    IN IF r.st = "err" THEN [r EXCEPT !.err = send_except(r.err)] ELSE r

\* A mutant of send_check: a response of no bytes is a timeout whatever the
\* number of bytes asked for.
send_check_zero_timeout(commands, rsp) ==
    IF Len(rsp) = 0
    THEN [st |-> "err",
          err |-> send_except(
              [Err("IOError", <<"Timeout waiting for response">>)
                  EXCEPT !.expected = Len(commands) * 2, !.got = 0]),
          checked |-> 0]
    ELSE IF Len(rsp) # Len(commands) * 2
    THEN [st |-> "err",
          err |-> send_except(
              [Err("IOError", <<"Partial response">>)
                  EXCEPT !.expected = Len(commands) * 2, !.got = Len(rsp)]),
          checked |-> 0]
    ELSE LET r == status_scan(rsp, 1, 0)
         IN IF r.st = "err" THEN [r EXCEPT !.err = send_except(r.err)] ELSE r

\* Lines 207-221 once transport.read has returned rsp: the length check, the
\* status scan, and the except clause every IOError raised there runs into.
send_check(commands, rsp) ==
    IF Len(rsp) # Len(commands) * 2
    THEN IF Len(rsp) = 0
         THEN [st |-> "err",
               err |-> send_except(
                   [Err("IOError", <<"Timeout waiting for response">>)
                       EXCEPT !.expected = Len(commands) * 2, !.got = 0]),
               checked |-> 0]
         ELSE [st |-> "err",
               err |-> send_except(
                   [Err("IOError", <<"Partial response">>)
                       EXCEPT !.expected = Len(commands) * 2, !.got = Len(rsp)]),
               checked |-> 0]
    ELSE LET r == status_scan(rsp, 1, 0)
         IN IF r.st = "err" THEN [r EXCEPT !.err = send_except(r.err)] ELSE r

(***************************************************************************)
(* main's demo sequence (lines 288-364) as the batches it submits.         *)
(***************************************************************************)
NumChannels == 8
NumDirectRounds == 5
NumTableValues == 10
NumCycles == 20
NumOffsets == 10
step == 16383
offset_base == 48
rs422_speed == 2000000

direct_values == <<65535, 256, 4096, 32768, 65535>>

\* vals_inc and vals_dec of lines 327-336.
vals_inc == [i \in 1..NumTableValues |-> ((i - 1) * step) % 65536]

vals_dec == [i \in 1..NumTableValues |-> (65535 - (i - 1) * step) % 65536]

DemoScript ==
    [k \in 1..NumChannels |-> <<cmd_direct(k - 1, 0)>>]
    \o << <<cmd_gpio(0, TRUE)>>, <<cmd_gpio(1, TRUE)>> >>
    \o [k \in 1..(NumDirectRounds * NumChannels) |->
            <<cmd_direct((k - 1) % NumChannels,
                         direct_values[(k - 1) \div NumChannels + 1])>>]
    \o [k \in 1..NumChannels |-> <<cmd_bind_table(k - 1, ((k - 1) \div 2) % 2)>>]
    \o << write_table_cmds(0, offset_base, vals_inc).cmds,
          write_table_cmds(1, offset_base, vals_dec).cmds >>
    \o [k \in 1..(NumCycles * NumOffsets) |->
            <<cmd_set_offset(offset_base + ((k - 1) % NumOffsets))>>]
    \o << cfg_rs422_cmds(rs422_speed \div 65536, rs422_speed % 65536).cmds >>

(***************************************************************************)
(* Activation records.  kind is "main", "handler" (one run of              *)
(* sigint_handler, pushed on whatever it interrupted) or "call" (a direct  *)
(* caller of _send, SpecSend).  pc is where the frame stands; cmds, data,  *)
(* rsp are _send's and TcpTransport.read's locals; pending is the          *)
(* exception a finally block re-raises when it ends.  nw, wbuf, nr, rsize, *)
(* checked, res, raw and rawop record what the current transaction did:    *)
(* calls of transport.write and the buffer passed, calls of transport.read *)
(* and the size asked, status words unpacked, how it ended, the error the  *)
(* channel raised and in which of the two calls; nsend counts the calls of  *)
(* _send the frame has made, old is what was unread on the channel when the *)
(* transaction wrote and own what the device answered to it; waited and     *)
(* rwaited are the time the transaction, and its read, have spent blocked,  *)
(* in units of which TimeoutUnits make one transport timeout, kept for the  *)
(* frames that are timed; rstop tells why TcpTransport.read gave up before  *)
(* it had all the bytes; prev is how the frame's previous transaction       *)
(* ended, plag what was unread when that one wrote, and desync whether an   *)
(* earlier transaction of the frame failed on a short read.                 *)
(***************************************************************************)
NoRes == [st |-> "none", err |-> NoErr]

NewFrame(kind, pc) ==
    [kind |-> kind, pc |-> pc, idx |-> 1, cmds |-> <<>>, data |-> <<>>,
     rsp |-> <<>>, pending |-> NoExc, nw |-> 0, wbuf |-> <<>>, nr |-> 0,
     rsize |-> -1, checked |-> 0, res |-> NoRes, raw |-> NoErr, rawop |-> "none",
     nsend |-> 0, old |-> <<>>, own |-> <<>>, waited |-> 0, rwaited |-> 0,
     timed |-> FALSE, rstop |-> "none", prev |-> NoRes, plag |-> 0,
     desync |-> FALSE]

Top == stack[Len(stack)]

SetTop(f) == [stack EXCEPT ![Len(stack)] = f]

Pop == SubSeq(stack, 1, Len(stack) - 1)

Running == proc = "running" /\ stack # <<>> /\ exc = NoExc

At(kind, pc) == Running /\ Top.kind = kind /\ Top.pc = pc

InSend(pc) == Running /\ Top.pc = pc

\* A facade call entering _send with the batch it built (lines 168-199, 202).
Enter(f, commands) ==
    [f EXCEPT !.pc = "send_write", !.cmds = commands, !.data = <<>>,
              !.rsp = <<>>, !.nw = 0, !.wbuf = <<>>, !.nr = 0, !.rsize = -1,
              !.checked = 0, !.res = NoRes, !.raw = NoErr, !.rawop = "none",
              !.nsend = @ + 1, !.old = <<>>, !.own = <<>>, !.waited = 0,
              !.rwaited = 0, !.rstop = "none"]

\* _send has returned or raised: its locals, and those of the transport's
\* read, are gone.  A "call" frame keeps them, to be looked at.
Leave(f, st, e) ==
    IF f.kind = "call"
    THEN [f EXCEPT !.res = [st |-> st, err |-> e]]
    ELSE [f EXCEPT !.res = [st |-> st, err |-> e], !.cmds = <<>>, !.data = <<>>,
                   !.rsp = <<>>, !.wbuf = <<>>, !.old = <<>>, !.own = <<>>,
                   !.rstop = "none"]

\* Where the caller of _send goes on when the transaction has ended: main's
\* next statement or its except clause (line 368), the handler's finally or
\* its except clause (line 279).
Resume(f, st, e) ==
    LET g == Leave(f, st, e)
    IN CASE f.kind = "main" ->
              IF st = "ok"
              THEN [g EXCEPT !.pc = "demo",
                             !.idx = IF f.idx <= Len(DemoScript) THEN f.idx + 1 ELSE f.idx]
              ELSE [g EXCEPT !.pc = "err_print"]
         [] f.kind = "handler" ->
              IF st = "ok" THEN [g EXCEPT !.pc = "close"] ELSE [g EXCEPT !.pc = "h_except"]
         [] OTHER -> [g EXCEPT !.pc = "done"]

(***************************************************************************)
(* The device answers every command it receives with one status word, in   *)
(* order.  rx holds its answers from the moment the commands are written;  *)
(* how many of them have arrived when a read gives up is the read's choice *)
(* of a prefix.                                                            *)
(***************************************************************************)
DevStatuses == {0, 1, 256}

\* The big-endian bytes of the status words st[1..n].
RECURSIVE StatusBytes(_)
StatusBytes(st) ==
    IF st = <<>> THEN <<>>
    ELSE <<Head(st) \div 256, Head(st) % 256>> \o StatusBytes(Tail(st))

\* The status words a device may answer n commands with: at most budget of
\* them are not STATUS_OK.
Responses(n, budget) ==
    LET BadSets == {S \in SUBSET (1..n) : Cardinality(S) <= budget}
    IN UNION {{[i \in 1..n |-> IF i \in S THEN c[i] ELSE 0] :
                 c \in [S -> DevStatuses \ {0}]} : S \in BadSets}

NonZero(st) == Cardinality({i \in 1..Len(st) : st[i] # 0})

(***************************************************************************)
(* Csv1Device._send (lines 201-221) over the two transports.               *)
(***************************************************************************)
\* How long one blocking call of the channel may last when it does not time
\* out: less than the timeout the transport was opened with (lines 36, 58).
Waits(f) == IF f.timed THEN 0..(TimeoutUnits - 1) ELSE {0}

\* How long a blocking call that times out has lasted.
Timeout(f) == IF f.timed THEN TimeoutUnits ELSE 0

\* f after one more blocking call of its write half / its read half.
WaitedW(f, w) == [f EXCEPT !.waited = @ + w]

WaitedR(f, w) == [f EXCEPT !.waited = @ + w, !.rwaited = @ + w]

\* A mutant of pending_input: the input buffer is flushed before the write.
pending_input_flushed(unread) == <<>>

\* What is unread on the channel when _send writes: nothing between lines 202
\* and 204 reads or discards input.
pending_input(unread) == unread

\* Line 204, transport.write(pkt) returning; the device answers the batch.
SendWriteOk ==
    /\ InSend("send_write") /\ isOpen
    /\ \E st \in Responses(Len(join(Top.cmds)) \div 4, badLeft) :
       \E w \in Waits(Top) :
         /\ stack' = SetTop([WaitedW(Top, w) EXCEPT
                                !.pc = "send_read", !.nw = @ + 1,
                                !.wbuf = join(Top.cmds),
                                !.old = pending_input(rx), !.own = StatusBytes(st)])
         /\ rx' = pending_input(rx) \o StatusBytes(st)
         /\ badLeft' = badLeft - NonZero(st)
    /\ UNCHANGED <<exc, proc, exitCode, installed, dev, tkind, isOpen, closeOps,
                   sigints, kaCount, encIn, encOut, target>>

\* A mutant of write_failed: the error of the write is dropped and _send goes
\* on to its read.
write_failed_goes_on(f, kind, e) ==
    [f EXCEPT !.pc = "send_read", !.nw = @ + 1, !.wbuf = join(f.cmds),
              !.raw = e, !.rawop = "write"]

\* transport.write(pkt) raised e inside _send's try (lines 203-204): the
\* transport's except clauses, then _send's (lines 218-221), and the caller's.
write_failed(f, kind, e) ==
    Resume([f EXCEPT !.nw = @ + 1, !.wbuf = join(f.cmds), !.raw = e, !.rawop = "write"],
           "err", send_except(transport_write_error(kind, e)))

\* Line 204, transport.write(pkt) raising.
SendWriteFail ==
    /\ InSend("send_write")
    /\ \E e \in RawWriteErrors(tkind, isOpen) :
       \E w \in Waits(Top) \cup {Timeout(Top)} :
         stack' = SetTop(write_failed(WaitedW(Top, w), tkind, e))
    /\ UNCHANGED <<exc, proc, exitCode, installed, dev, tkind, isOpen, closeOps,
                   rx, sigints, badLeft, kaCount, encIn, encOut, target>>

Min(a, b) == IF a < b THEN a ELSE b

\* Line 205 over the serial transport: port.read(size) returns size bytes, or
\* the n < size bytes that had arrived when the timeout ran out.
SerialRead ==
    /\ InSend("send_read") /\ tkind = "Serial" /\ isOpen
    /\ LET size == read_size(Top.cmds)
       IN \E n \in 0..Min(size, Len(rx)) :
          \E w \in (IF size = 0 THEN {0} ELSE IF n = size THEN Waits(Top)
                     ELSE {Timeout(Top)}) :
            /\ stack' = SetTop([WaitedR(Top, w) EXCEPT
                                   !.pc = "send_check", !.nr = @ + 1,
                                   !.rsize = size, !.rsp = SubSeq(rx, 1, n)])
            /\ rx' = SubSeq(rx, n + 1, Len(rx))
    /\ UNCHANGED <<exc, proc, exitCode, installed, dev, tkind, isOpen, closeOps,
                   sigints, badLeft, kaCount, encIn, encOut, target>>

SerialReadFail ==
    /\ InSend("send_read") /\ tkind = "Serial"
    /\ \E e \in RawReadErrors(tkind, isOpen) :
       \E w \in Waits(Top) :
         stack' = SetTop(Resume([WaitedR(Top, w) EXCEPT
                                    !.nr = @ + 1, !.rsize = read_size(Top.cmds),
                                    !.raw = e, !.rawop = "read"],
                                "err", send_except(transport_read_error(tkind, e))))
    /\ UNCHANGED <<exc, proc, exitCode, installed, dev, tkind, isOpen, closeOps,
                   rx, sigints, badLeft, kaCount, encIn, encOut, target>>

\* Line 205 over TCP: TcpTransport.read is entered (lines 78-79).
TcpReadEnter ==
    /\ InSend("send_read") /\ tkind = "TCP"
    /\ stack' = SetTop([Top EXCEPT !.pc = "tcp_loop", !.nr = @ + 1,
                                   !.rsize = read_size(Top.cmds), !.data = <<>>])
    /\ UNCHANGED <<exc, proc, exitCode, installed, dev, tkind, isOpen, closeOps,
                   rx, sigints, badLeft, kaCount, encIn, encOut, target>>

\* What line 81 asks recv for: what is still missing.
recv_size(size, have) == size - have

\* A mutant of tcp_accumulate: the chunk is put in front of the buffer.
tcp_accumulate_front(data, chunk) == chunk \o data

\* Line 84, data += chunk.
tcp_accumulate(data, chunk) == data \o chunk

\* Lines 80-84: one recv that returns a non-empty chunk.
TcpRecv ==
    /\ InSend("tcp_loop") /\ isOpen
    /\ Len(Top.data) < Top.rsize
    /\ \E k \in 1..Min(recv_size(Top.rsize, Len(Top.data)), Len(rx)) :
       \E w \in Waits(Top) :
         /\ stack' = SetTop([WaitedR(Top, w) EXCEPT
                                !.data = tcp_accumulate(@, SubSeq(rx, 1, k))])
         /\ rx' = SubSeq(rx, k + 1, Len(rx))
    /\ UNCHANGED <<exc, proc, exitCode, installed, dev, tkind, isOpen, closeOps,
                   sigints, badLeft, kaCount, encIn, encOut, target>>

\* Line 80 false, line 85: the loop ends with all the bytes asked for.
TcpReadDone ==
    /\ InSend("tcp_loop")
    /\ Len(Top.data) >= Top.rsize
    /\ stack' = SetTop([Top EXCEPT !.pc = "send_check", !.rsp = Top.data])
    /\ UNCHANGED <<exc, proc, exitCode, installed, dev, tkind, isOpen, closeOps,
                   rx, sigints, badLeft, kaCount, encIn, encOut, target>>

\* Lines 82-83 (the peer closed: an empty chunk) and 86-87 (socket.timeout,
\* nothing more had arrived in time): the bytes received so far are returned.
TcpRecvStop ==
    /\ InSend("tcp_loop") /\ isOpen
    /\ Len(Top.data) < Top.rsize
    /\ \E how \in {"closed", "timeout"} :
       \E w \in (IF how = "timeout" THEN {Timeout(Top)} ELSE Waits(Top)) :
         stack' = SetTop([WaitedR(Top, w) EXCEPT !.pc = "send_check", !.rsp = Top.data,
                                                 !.rstop = how])
    /\ UNCHANGED <<exc, proc, exitCode, installed, dev, tkind, isOpen, closeOps,
                   rx, sigints, badLeft, kaCount, encIn, encOut, target>>

\* Lines 88-89: recv raises something else.
TcpRecvFail ==
    /\ InSend("tcp_loop")
    /\ Len(Top.data) < Top.rsize
    /\ \E e \in RawReadErrors(tkind, isOpen) :
       \E w \in Waits(Top) :
         stack' = SetTop(Resume([WaitedR(Top, w) EXCEPT !.raw = e, !.rawop = "read"],
                                "err", send_except(transport_read_error(tkind, e))))
    /\ UNCHANGED <<exc, proc, exitCode, installed, dev, tkind, isOpen, closeOps,
                   rx, sigints, badLeft, kaCount, encIn, encOut, target>>

\* Lines 207-221 and the return to the caller; line 362 after a keepalive.
SendCheck ==
    /\ InSend("send_check")
    /\ LET r == send_check(Top.cmds, Top.rsp)
       IN /\ stack' = SetTop(Resume([Top EXCEPT !.checked = r.checked], r.st, r.err))
          /\ kaCount' = IF Top.kind = "main" /\ r.st = "ok" /\ Top.idx > Len(DemoScript)
                        THEN kaCount + 1 ELSE kaCount
    /\ UNCHANGED <<exc, proc, exitCode, installed, dev, tkind, isOpen, closeOps,
                   rx, sigints, badLeft, encIn, encOut, target>>

(***************************************************************************)
(* main (lines 268-377), sigint_handler (lines 275-284) and the teardown.  *)
(***************************************************************************)
\* Csv1Device(target) returning a Device (lines 134-136), to main at line 269
\* or to another caller.
ConstructOk ==
    /\ Running /\ Top.pc = "construct"
    /\ tkind' = create_transport(target)
    /\ dev' = "live" /\ isOpen' = TRUE
    /\ stack' = SetTop([Top EXCEPT !.pc = IF Top.kind = "main" THEN "install"
                                          ELSE "facade"])
    /\ UNCHANGED <<exc, proc, exitCode, installed, closeOps, rx,
                   sigints, badLeft, kaCount, encIn, encOut, target>>

\* What the transport's constructor raises when the channel cannot be
\* established: serial.Serial's error (line 36), or the ConnectionError of
\* line 66, whose message holds the socket's.
construct_error(kind) ==
    IF kind = "TCP"
    THEN Err("ConnectionError", <<"Failed to connect to ", "[Errno 111] Connection refused">>)
    ELSE Err("SerialException", <<"could not open port">>)

\* A mutant of failed_init_closes: the socket is left as it is.
failed_init_closes_none(kind) == 0

\* The close operations a failing transport constructor performs on the
\* channel it had created: TcpTransport.__init__ closes its socket (line 65);
\* serial.Serial raising leaves no port behind.
failed_init_closes(kind) == IF kind = "TCP" THEN 1 ELSE 0

\* Csv1Device(target) raising: no Device is bound (line 135 raises out of
\* __init__, and __del__ finds no transport attribute, line 139).  main prints
\* and exits with status 1 (lines 270-272); another caller gets the error.
ConstructFail ==
    /\ Running /\ Top.pc = "construct"
    /\ LET kind == create_transport(target)
       IN /\ closeOps' = closeOps + failed_init_closes(kind)
          /\ isOpen' = (kind = "TCP" /\ failed_init_closes(kind) = 0)
          /\ IF Top.kind = "main"
             THEN stack' = <<>> /\ proc' = "exiting" /\ exitCode' = 1
             ELSE /\ stack' = SetTop([Top EXCEPT
                                        !.pc = "construct_failed",
                                        !.res = [st |-> "err", err |-> construct_error(kind)]])
                  /\ UNCHANGED <<proc, exitCode>>
    /\ UNCHANGED <<exc, installed, dev, tkind, rx, sigints, badLeft,
                   kaCount, encIn, encOut, target>>

\* Line 286.
Install ==
    /\ At("main", "install")
    /\ installed' = TRUE
    /\ stack' = SetTop([Top EXCEPT !.pc = "demo"])
    /\ UNCHANGED <<exc, proc, exitCode, dev, tkind, isOpen, closeOps, rx,
                   sigints, badLeft, kaCount, encIn, encOut, target>>

\* SIGINT before line 286 has run: Python's default handler raises
\* KeyboardInterrupt outside main's try, and the interpreter ends on it.
DefaultSigint ==
    /\ At("main", "install") /\ ~installed
    /\ stack' = <<>> /\ proc' = "exiting" /\ exitCode' = 130
    /\ UNCHANGED <<exc, installed, dev, tkind, isOpen, closeOps, rx,
                   sigints, badLeft, kaCount, encIn, encOut, target>>

\* The next facade call of lines 289-356.
DemoCall ==
    /\ At("main", "demo") /\ Top.idx <= Len(DemoScript)
    /\ stack' = SetTop(Enter(Top, DemoScript[Top.idx]))
    /\ UNCHANGED <<exc, proc, exitCode, installed, dev, tkind, isOpen, closeOps,
                   rx, sigints, badLeft, kaCount, encIn, encOut, target>>

\* Lines 360-361.
KeepaliveCall ==
    /\ At("main", "demo") /\ Top.idx > Len(DemoScript)
    /\ kaCount < MaxKeepalive
    /\ stack' = SetTop(Enter(Top, <<cmd_keepalive>>))
    /\ UNCHANGED <<exc, proc, exitCode, installed, dev, tkind, isOpen, closeOps,
                   rx, sigints, badLeft, kaCount, encIn, encOut, target>>

\* Lines 368-372.
ErrPrint ==
    /\ At("main", "err_print")
    /\ stack' = SetTop([Top EXCEPT !.pc = "close"])
    /\ UNCHANGED <<exc, proc, exitCode, installed, dev, tkind, isOpen, closeOps,
                   rx, sigints, badLeft, kaCount, encIn, encOut, target>>

\* Line 377.
ErrExit ==
    /\ At("main", "err_exit")
    /\ stack' = <<>> /\ proc' = "exiting" /\ exitCode' = 1
    /\ UNCHANGED <<exc, installed, dev, tkind, isOpen, closeOps, rx,
                   sigints, badLeft, kaCount, encIn, encOut, target>>

\* SIGINT with the handler installed: Python runs sigint_handler on top of
\* whatever the thread was doing.
Sigint ==
    /\ Running /\ installed /\ sigints < MaxSigint
    /\ stack' = Append(stack, NewFrame("handler", "h_print"))
    /\ sigints' = sigints + 1
    /\ UNCHANGED <<exc, proc, exitCode, installed, dev, tkind, isOpen, closeOps,
                   rx, badLeft, kaCount, encIn, encOut, target>>

\* Lines 276-278: device.set_gpio(1, False).
HandlerCall ==
    /\ At("handler", "h_print")
    /\ stack' = SetTop(Enter(Top, <<cmd_gpio(1, FALSE)>>))
    /\ UNCHANGED <<exc, proc, exitCode, installed, dev, tkind, isOpen, closeOps,
                   rx, sigints, badLeft, kaCount, encIn, encOut, target>>

\* Lines 279-281.
HandlerExcept ==
    /\ At("handler", "h_except")
    /\ stack' = SetTop([Top EXCEPT !.pc = "close"])
    /\ UNCHANGED <<exc, proc, exitCode, installed, dev, tkind, isOpen, closeOps,
                   rx, sigints, badLeft, kaCount, encIn, encOut, target>>

\* Line 284.
HandlerExit ==
    /\ At("handler", "h_exit")
    /\ stack' = Pop /\ exc' = SystemExit(0)
    /\ UNCHANGED <<proc, exitCode, installed, dev, tkind, isOpen, closeOps, rx,
                   sigints, badLeft, kaCount, encIn, encOut, target>>

\* device.close() has returned to line 283 (the finally block ends: what it
\* held back is re-raised) or to line 374.
AfterCloseStack(f) ==
    IF f.kind = "main" THEN SetTop([f EXCEPT !.pc = "err_exit"])
    ELSE IF f.pending # NoExc THEN Pop
    ELSE SetTop([f EXCEPT !.pc = "h_exit"])

AfterCloseExc(f) == IF f.kind = "handler" THEN f.pending ELSE NoExc

\* Whether the transport's close looks at the channel before closing it:
\* SerialTransport.close does (line 45), TcpTransport.close does not.
close_guarded(kind) == kind = "Serial"

\* Csv1Device.close (line 225) into transport.close (line 45 / line 92).
CloseEnter ==
    /\ Running /\ Top.pc = "close"
    /\ IF close_guarded(tkind) /\ ~isOpen
       THEN stack' = AfterCloseStack(Top) /\ exc' = AfterCloseExc(Top)
       ELSE stack' = SetTop([Top EXCEPT !.pc = "close_raw"]) /\ exc' = exc
    /\ UNCHANGED <<proc, exitCode, installed, dev, tkind, isOpen, closeOps, rx,
                   sigints, badLeft, kaCount, encIn, encOut, target>>

\* port.close() (line 46) / socket.close() (line 93); what was unread is lost.
CloseRaw ==
    /\ Running /\ Top.pc = "close_raw"
    /\ closeOps' = closeOps + 1 /\ isOpen' = FALSE /\ rx' = <<>>
    /\ stack' = AfterCloseStack(Top) /\ exc' = AfterCloseExc(Top)
    /\ UNCHANGED <<proc, exitCode, installed, dev, tkind, sigints, badLeft,
                   kaCount, encIn, encOut, target>>

\* Whether a SystemExit arriving in a frame at pc is caught there by a bare
\* except: main's around device.close() (lines 373-376), and
\* TcpTransport.close's around socket.close() (lines 92-95).
swallows(kind, pc, tk) ==
    \/ kind = "main" /\ pc \in {"close", "close_raw"}
    \/ kind = "handler" /\ pc = "close_raw" /\ tk = "TCP"

\* The SystemExit of a handler's sys.exit(0) propagating into the frame the
\* handler interrupted.  No clause of _send, of the transports' read and write
\* or of main's try names SystemExit; a handler frame inside its try runs
\* its finally block first.
Unwind ==
    /\ proc = "running" /\ exc # NoExc /\ stack # <<>>
    /\ LET f == Top
       IN IF swallows(f.kind, f.pc, tkind)
          THEN /\ stack' = AfterCloseStack(f) /\ exc' = AfterCloseExc(f)
               /\ UNCHANGED <<proc, exitCode>>
          ELSE IF f.kind = "main"
          THEN /\ stack' = <<>> /\ exc' = NoExc
               /\ proc' = "exiting" /\ exitCode' = exc.code
          ELSE IF f.pc \in {"send_write", "send_read", "tcp_loop", "send_check", "h_except"}
          THEN /\ stack' = SetTop([f EXCEPT !.pc = "close", !.pending = exc])
               /\ exc' = NoExc
               /\ UNCHANGED <<proc, exitCode>>
          ELSE /\ stack' = Pop /\ exc' = exc
               /\ UNCHANGED <<proc, exitCode>>
    /\ UNCHANGED <<installed, dev, tkind, isOpen, closeOps, rx, sigints, badLeft,
                   kaCount, encIn, encOut, target>>

\* The interpreter finalises: Csv1Device.__del__ (lines 138-140) closes the
\* transport of whatever Device exists.
Teardown ==
    /\ proc = "exiting"
    /\ closeOps' = IF dev = "live" /\ (~close_guarded(tkind) \/ isOpen)
                   THEN closeOps + 1 ELSE closeOps
    /\ isOpen' = FALSE /\ rx' = <<>>
    /\ proc' = "terminated"
    /\ UNCHANGED <<stack, exc, exitCode, installed, dev, tkind,
                   sigints, badLeft, kaCount, encIn, encOut, target>>

(***************************************************************************)
(* The specifications.                                                     *)
(***************************************************************************)
EncIdle == [op |-> "none", a |-> 0, b |-> 0, v |-> 0, vals |-> <<>>]

NoOut == [st |-> "none", val |-> <<>>]

Init ==
    /\ stack = <<NewFrame("main", "construct")>>
    /\ exc = NoExc /\ proc = "running" /\ exitCode = -1
    /\ installed = FALSE /\ dev = "none"
    /\ target \in DemoTargets /\ tkind = "none"
    /\ isOpen = FALSE /\ closeOps = 0
    /\ rx = <<>>
    /\ sigints = 0 /\ badLeft = MaxDemoBadStatus /\ kaCount = 0
    /\ encIn = EncIdle /\ encOut = NoOut

Next ==
    \/ ConstructOk \/ ConstructFail \/ Install \/ DefaultSigint
    \/ DemoCall \/ KeepaliveCall \/ ErrPrint \/ ErrExit
    \/ Sigint \/ HandlerCall \/ HandlerExcept \/ HandlerExit
    \/ CloseEnter \/ CloseRaw \/ Unwind \/ Teardown
    \/ SendWriteOk \/ SendWriteFail
    \/ SerialRead \/ SerialReadFail
    \/ TcpReadEnter \/ TcpRecv \/ TcpReadDone \/ TcpRecvStop \/ TcpRecvFail
    \/ SendCheck

Spec == Init /\ [][Next]_vars

(***************************************************************************)
(* SpecSend: one call of _send, on any batch of up to MaxBatch commands,   *)
(* over either transport.                                                  *)
(***************************************************************************)
CmdSet == {cmd_keepalive, cmd_gpio(1, FALSE), cmd_direct(0, 256)}

Batches == UNION {[1..n -> CmdSet] : n \in 0..MaxBatch}

InitSend ==
    /\ \E b \in Batches : stack = <<Enter(NewFrame("call", "send_write"), b)>>
    /\ exc = NoExc /\ proc = "running" /\ exitCode = -1
    /\ installed = FALSE /\ dev = "live"
    /\ target \in DemoTargets /\ tkind = create_transport(target)
    /\ isOpen = TRUE /\ closeOps = 0
    /\ rx = <<>>
    /\ sigints = 0 /\ badLeft = MaxBadStatus /\ kaCount = 0
    /\ encIn = EncIdle /\ encOut = NoOut

NextSend ==
    \/ SendWriteOk \/ SendWriteFail
    \/ SerialRead \/ SerialReadFail
    \/ TcpReadEnter \/ TcpRecv \/ TcpReadDone \/ TcpRecvStop \/ TcpRecvFail
    \/ SendCheck

SpecSend == InitSend /\ [][NextSend]_vars

(***************************************************************************)
(* SpecTimed: one call of _send, on a batch of one or two commands, with   *)
(* the time it spends blocked in the channel's calls accounted.            *)
(***************************************************************************)
TimedBatches == UNION {[1..n -> {cmd_keepalive}] : n \in 1..MaxTimedBatch}

InitTimed ==
    /\ \E b \in TimedBatches :
         stack = <<Enter([NewFrame("call", "send_write") EXCEPT !.timed = TRUE], b)>>
    /\ exc = NoExc /\ proc = "running" /\ exitCode = -1
    /\ installed = FALSE /\ dev = "live"
    /\ target \in DemoTargets /\ tkind = create_transport(target)
    /\ isOpen = TRUE /\ closeOps = 0
    /\ rx = <<>>
    /\ sigints = 0 /\ badLeft = 0 /\ kaCount = 0
    /\ encIn = EncIdle /\ encOut = NoOut

NextTimed ==
    \/ SendWriteOk \/ SendWriteFail
    \/ SerialRead \/ SerialReadFail
    \/ TcpReadEnter \/ TcpRecv \/ TcpReadDone \/ TcpRecvStop \/ TcpRecvFail
    \/ SendCheck

SpecTimed == InitTimed /\ [][NextTimed]_vars

(***************************************************************************)
(* SpecSession: a caller that makes up to MaxCalls calls of _send, one     *)
(* after the other, on the same Device, going on after a failure.          *)
(***************************************************************************)
SessionBatches == UNION {[1..n -> {cmd_keepalive}] : n \in 0..MaxSessionBatch}

\* The IOError of lines 209 and 211: the response was short.
ShortFail(res) ==
    /\ res.st = "err"
    /\ Len(res.err.msg) = 2
    /\ res.err.msg[2] \in {"Timeout waiting for response", "Partial response"}

\* The IOError of line 216: a status word was not STATUS_OK.
StatusFail(res) ==
    /\ res.st = "err"
    /\ Len(res.err.msg) = 2
    /\ res.err.msg[2] = "Device returned status"

\* The caller, its last call of _send over (returned, or its IOError caught),
\* calls _send again on the same Device.
CallAgain ==
    /\ At("call", "done") /\ Top.nsend < MaxCalls
    /\ \E b \in SessionBatches :
         stack' = SetTop([Enter(Top, b) EXCEPT
                            !.prev = Top.res, !.plag = Len(Top.old),
                            !.desync = Top.desync \/ ShortFail(Top.res)])
    /\ UNCHANGED <<exc, proc, exitCode, installed, dev, tkind, isOpen, closeOps,
                   rx, sigints, badLeft, kaCount, encIn, encOut, target>>

InitSession ==
    /\ \E b \in SessionBatches : stack = <<Enter(NewFrame("call", "send_write"), b)>>
    /\ exc = NoExc /\ proc = "running" /\ exitCode = -1
    /\ installed = FALSE /\ dev = "live"
    /\ target \in DemoTargets /\ tkind = create_transport(target)
    /\ isOpen = TRUE /\ closeOps = 0
    /\ rx = <<>>
    /\ sigints = 0 /\ badLeft = MaxSessionBad /\ kaCount = 0
    /\ encIn = EncIdle /\ encOut = NoOut

NextSession ==
    \/ CallAgain
    \/ SendWriteOk \/ SendWriteFail
    \/ SerialRead \/ SerialReadFail
    \/ TcpReadEnter \/ TcpRecv \/ TcpReadDone \/ TcpRecvStop \/ TcpRecvFail
    \/ SendCheck

SpecSession == InitSession /\ [][NextSession]_vars

(***************************************************************************)
(* SpecEnc: each command builder, and the two facade calls that build a    *)
(* batch of several commands, applied once to arguments in and out of      *)
(* range.                                                                  *)
(***************************************************************************)
ByteIn == {-1, 0, 1, 48, 255, 256}

WordIn == {-1, 0, 1, 4660, 65535, 65536}

TableIn == {-1, 0, 1, 3, 4, 5}

ValueLists == UNION {[1..n -> {0, 8191, 65536}] : n \in 0..MaxVals}

\* op, and its arguments: a and b are the first and second of channel, table,
\* offset, register (hi for cfg_rs422), v the value (state for gpio, lo for
\* cfg_rs422), vals the values of write_table.
EncInputs ==
    {[op |-> "direct", a |-> c, b |-> 0, v |-> w, vals |-> <<>>] :
        c \in ByteIn, w \in WordIn}
    \cup {[op |-> "bind_table", a |-> c, b |-> t, v |-> 0, vals |-> <<>>] :
        c \in ByteIn, t \in TableIn}
    \cup {[op |-> "write_table_entry", a |-> t, b |-> o, v |-> w, vals |-> <<>>] :
        t \in TableIn, o \in ByteIn, w \in WordIn}
    \cup {[op |-> "set_offset", a |-> o, b |-> 0, v |-> 0, vals |-> <<>>] :
        o \in ByteIn}
    \cup {[op |-> "gpio", a |-> c, b |-> 0, v |-> w, vals |-> <<>>] :
        c \in ByteIn, w \in {0, 1, 2}}
    \cup {[op |-> "keepalive", a |-> 0, b |-> 0, v |-> 0, vals |-> <<>>]}
    \cup {[op |-> "ldac", a |-> 0, b |-> 0, v |-> 0, vals |-> <<>>]}
    \cup {[op |-> "register", a |-> r, b |-> 0, v |-> w, vals |-> <<>>] :
        r \in ByteIn, w \in WordIn}
    \cup {[op |-> "write_table", a |-> t, b |-> o, v |-> 0, vals |-> l] :
        t \in {0, 1, 5}, o \in {48, 254, 255}, l \in ValueLists}
    \cup {[op |-> "cfg_rs422", a |-> h, b |-> 0, v |-> l, vals |-> <<>>] :
        h \in {-1, 0, 30, 4660, 65535, 65536}, l \in {0, 22136, 33920, 65535}}

\* What a builder gave: the command, or struct.error raised.
Built(c) ==
    IF c = StructError THEN [st |-> "struct.error", val |-> <<>>]
    ELSE [st |-> "ok", val |-> c]

\* What a batch-building facade call handed to _send, or struct.error raised
\* before _send was called.
BuiltBatch(r) ==
    IF r.raised THEN [st |-> "struct.error", val |-> <<>>]
    ELSE [st |-> "ok", val |-> r.cmds]

EncDirect ==
    /\ encIn.op = "direct" /\ encOut = NoOut
    /\ encOut' = Built(cmd_direct(encIn.a, encIn.v))
    /\ UNCHANGED <<progVars, encIn>>

EncBindTable ==
    /\ encIn.op = "bind_table" /\ encOut = NoOut
    /\ encOut' = Built(cmd_bind_table(encIn.a, encIn.b))
    /\ UNCHANGED <<progVars, encIn>>

EncWriteTableEntry ==
    /\ encIn.op = "write_table_entry" /\ encOut = NoOut
    /\ encOut' = Built(cmd_write_table(encIn.a, encIn.b, encIn.v))
    /\ UNCHANGED <<progVars, encIn>>

EncSetOffset ==
    /\ encIn.op = "set_offset" /\ encOut = NoOut
    /\ encOut' = Built(cmd_set_offset(encIn.a))
    /\ UNCHANGED <<progVars, encIn>>

EncGpio ==
    /\ encIn.op = "gpio" /\ encOut = NoOut
    /\ encOut' = Built(cmd_gpio(encIn.a, encIn.v # 0))
    /\ UNCHANGED <<progVars, encIn>>

EncKeepalive ==
    /\ encIn.op = "keepalive" /\ encOut = NoOut
    /\ encOut' = Built(cmd_keepalive)
    /\ UNCHANGED <<progVars, encIn>>

EncLdac ==
    /\ encIn.op = "ldac" /\ encOut = NoOut
    /\ encOut' = Built(cmd_ldac)
    /\ UNCHANGED <<progVars, encIn>>

EncRegister ==
    /\ encIn.op = "register" /\ encOut = NoOut
    /\ encOut' = Built(cmd_register(encIn.a, encIn.v))
    /\ UNCHANGED <<progVars, encIn>>

EncWriteTable ==
    /\ encIn.op = "write_table" /\ encOut = NoOut
    /\ encOut' = BuiltBatch(write_table_cmds(encIn.a, encIn.b, encIn.vals))
    /\ UNCHANGED <<progVars, encIn>>

EncCfgRs422 ==
    /\ encIn.op = "cfg_rs422" /\ encOut = NoOut
    /\ encOut' = BuiltBatch(cfg_rs422_cmds(encIn.a, encIn.v))
    /\ UNCHANGED <<progVars, encIn>>

InitEnc ==
    /\ encIn \in EncInputs /\ encOut = NoOut
    /\ stack = <<>> /\ exc = NoExc /\ proc = "running" /\ exitCode = -1
    /\ installed = FALSE /\ dev = "none" /\ tkind = "none" /\ target = <<>>
    /\ isOpen = FALSE /\ closeOps = 0 /\ rx = <<>>
    /\ sigints = 0 /\ badLeft = 0 /\ kaCount = 0

NextEnc ==
    \/ EncDirect \/ EncBindTable \/ EncWriteTableEntry \/ EncSetOffset
    \/ EncGpio \/ EncKeepalive \/ EncLdac \/ EncRegister
    \/ EncWriteTable \/ EncCfgRs422

SpecEnc == InitEnc /\ [][NextEnc]_vars

(***************************************************************************)
(* SpecFacade: a caller that constructs a Device and makes one call of     *)
(* write_table or cfg_rs422 on it, from its arguments to the end of the    *)
(* transaction it submits.                                                 *)
(***************************************************************************)
FacadeInputs == {r \in EncInputs : r.op \in {"write_table", "cfg_rs422"}}

\* A facade call that has built its batch: struct.error raised by a builder
\* ends it, otherwise it calls _send (lines 178, 196).
Submit(f, r) ==
    IF r.raised THEN [f EXCEPT !.pc = "raised"] ELSE Enter(f, r.cmds)

\* Csv1Device.write_table (lines 174-178).
FacadeWriteTable ==
    /\ At("call", "facade") /\ encIn.op = "write_table"
    /\ LET r == write_table_cmds(encIn.a, encIn.b, encIn.vals)
       IN /\ encOut' = BuiltBatch(r)
          /\ stack' = SetTop(Submit(Top, r))
    /\ UNCHANGED <<exc, proc, exitCode, installed, dev, tkind, isOpen, closeOps,
                   rx, sigints, badLeft, kaCount, encIn, target>>

\* Csv1Device.cfg_rs422 (lines 195-199).
FacadeCfgRs422 ==
    /\ At("call", "facade") /\ encIn.op = "cfg_rs422"
    /\ LET r == cfg_rs422_cmds(encIn.a, encIn.v)
       IN /\ encOut' = BuiltBatch(r)
          /\ stack' = SetTop(Submit(Top, r))
    /\ UNCHANGED <<exc, proc, exitCode, installed, dev, tkind, isOpen, closeOps,
                   rx, sigints, badLeft, kaCount, encIn, target>>

InitFacade ==
    /\ stack = <<NewFrame("call", "construct")>>
    /\ encIn \in FacadeInputs /\ encOut = NoOut
    /\ exc = NoExc /\ proc = "running" /\ exitCode = -1
    /\ installed = FALSE /\ dev = "none"
    /\ target \in DemoTargets /\ tkind = "none"
    /\ isOpen = FALSE /\ closeOps = 0
    /\ rx = <<>>
    /\ sigints = 0 /\ badLeft = MaxBadStatus /\ kaCount = 0

NextFacade ==
    \/ ConstructOk \/ ConstructFail
    \/ FacadeWriteTable \/ FacadeCfgRs422
    \/ SendWriteOk \/ SendWriteFail
    \/ SerialRead \/ SerialReadFail
    \/ TcpReadEnter \/ TcpRecv \/ TcpReadDone \/ TcpRecvStop \/ TcpRecvFail
    \/ SendCheck

SpecFacade == InitFacade /\ [][NextFacade]_vars

(***************************************************************************)
(* SpecTarget: create_transport applied to a target string.                *)
(***************************************************************************)
HostParts ==
    { <<"1", ".", "1", ".", "1", ".", "1">>,
      <<"1", "9", "2", ".", "1", "6", "8", ".", "1", ".", "1">>,
      <<"9", "9", "9", ".", "1", ".", "1", ".", "1">>,
      <<"1", "2", "3", "4", ".", "1", ".", "1", ".", "1">>,
      <<"1", ".", "1", ".", "1">>,
      <<"1", ".", "1", ".", "1", ".", "1", ".", "1">>,
      <<"1", ".", ".", "1", ".", "1">>,
      <<"a", ".", "1", ".", "1", ".", "1">>,
      <<"[", ":", ":", "1", "]">>,
      <<"[", "]">>,
      <<"[", ":", "1">>,
      <<"[", "a", "]", "]">>,
      <<"C", "O", "M", "5">>,
      <<"/", "d", "e", "v", "/", "t", "t", "y", "0">>,
      <<>> }

SepParts == { <<":">>, <<>>, <<":", ":">> }

PortParts == { <<>>, <<"8">>, <<"8", "0", "8", "0">>, <<"8", "x">>, <<"x">>, <<"-", "1">> }

TailParts == { <<>>, <<"\n">>, <<"x">>, <<" ">>, <<"\n", "\n">> }

\* Target strings: hosts, separators, ports and endings, well and ill formed.
Targets ==
    {h \o c \o q \o t : h \in HostParts, c \in SepParts, q \in PortParts, t \in TailParts}

\* create_transport(target) choosing the transport class (lines 111-128).
CreateTransport ==
    /\ At("call", "create")
    /\ tkind' = create_transport(target)
    /\ stack' = SetTop([Top EXCEPT !.pc = "created"])
    /\ UNCHANGED <<exc, proc, exitCode, installed, dev, isOpen, closeOps, rx,
                   sigints, badLeft, kaCount, encIn, encOut, target>>

InitTarget ==
    /\ stack = <<NewFrame("call", "create")>>
    /\ target \in Targets /\ tkind = "none"
    /\ exc = NoExc /\ proc = "running" /\ exitCode = -1
    /\ installed = FALSE /\ dev = "none"
    /\ isOpen = FALSE /\ closeOps = 0 /\ rx = <<>>
    /\ sigints = 0 /\ badLeft = 0 /\ kaCount = 0
    /\ encIn = EncIdle /\ encOut = NoOut

NextTarget == CreateTransport

SpecTarget == InitTarget /\ [][NextTarget]_vars

(***************************************************************************)
(* Claims about the transaction engine, checked under SpecSend.            *)
(***************************************************************************)
Frames == {stack[i] : i \in 1..Len(stack)}

\* The i-th big-endian 16-bit status word of a response.
Word(rsp, i) == rsp[2 * i - 1] * 256 + rsp[2 * i]

\* The transaction of frame f has ended, with success or with an error.
Ended(f) == f.res.st # "none"

\* C1: for every batch of N >= 1 commands _send calls transport.write exactly
\* once, with a buffer of 4N bytes that holds the N commands in submission
\* order (each command at its own place, none dropped, none moved), and, the
\* write having returned, calls transport.read once, asking for exactly 2N
\* bytes; it never reads before it has written.
C1_OneWriteThenRead2N ==
    \A f \in Frames :
        LET N == Len(f.cmds)
        IN N >= 1 =>
            /\ f.nw <= 1 /\ f.nr <= 1
            /\ f.pc \in {"send_read", "tcp_loop", "send_check"} => f.nw = 1
            /\ f.pc \in {"tcp_loop", "send_check"} => f.nr = 1
            /\ Ended(f) => f.nw = 1
            /\ (Ended(f) /\ f.rawop # "write") => f.nr = 1
            /\ f.nw = 1 =>
                 /\ Len(f.wbuf) = 4 * N
                 /\ \A i \in 1..N : \A k \in 1..4 : f.wbuf[4 * (i - 1) + k] = f.cmds[i][k]
            /\ f.nr = 1 => f.nw = 1 /\ f.rsize = 2 * N

\* A batch of three commands, the first and the last the same, the second
\* another, written and read.
C1_Witness ==
    \E f \in Frames :
        /\ Len(f.cmds) = 3 /\ f.cmds[1] = f.cmds[3] /\ f.cmds[1] # f.cmds[2]
        /\ f.res.st = "ok" /\ f.nw = 1 /\ f.nr = 1 /\ f.rsize = 6
        /\ Len(f.wbuf) = 12

\* transport.read returned exactly 2N bytes to the transaction of frame f.
FullResponse(f) ==
    /\ Len(f.cmds) >= 1 /\ Ended(f) /\ f.rawop = "none"
    /\ Len(f.rsp) = 2 * Len(f.cmds)

\* C2: when transport.read returns exactly 2N bytes, _send succeeds if and
\* only if all N status words are 0x0000; otherwise it fails with an IOError
\* whose message names the device status and carries the code of the
\* lowest-index non-zero status word.
C2_FirstNonZeroStatus ==
    \A f \in Frames :
        FullResponse(f) =>
            LET N == Len(f.cmds)
                bad == {i \in 1..N : Word(f.rsp, i) # 0}
            IN /\ f.res.st = "ok" <=> bad = {}
               /\ bad # {} =>
                    /\ f.res.st = "err"
                    /\ f.res.err.type = "IOError"
                    /\ f.res.err.msg = <<"Communication error: ", "Device returned status">>
                    /\ \E i \in bad :
                         /\ \A j \in bad : i <= j
                         /\ f.res.err.code = Word(f.rsp, i)

\* Three status words 0x0000, 0x0100, 0x0001: the transaction fails with 0x0100.
C2_Witness ==
    \E f \in Frames :
        /\ FullResponse(f) /\ f.rsp = <<0, 0, 1, 0, 0, 1>>
        /\ f.res.st = "err" /\ f.res.err.code = 256

\* transport.read returned fewer than 2N bytes to the transaction of frame f.
ShortResponse(f) ==
    /\ Len(f.cmds) >= 1 /\ Ended(f) /\ f.rawop = "none"
    /\ Len(f.rsp) < 2 * Len(f.cmds)

\* C3: when transport.read returns fewer than 2N bytes, _send fails with the
\* timeout error (0 bytes) or the partial-response error (1..2N-1 bytes),
\* which tell the bytes expected and received; no status word is unpacked, no
\* status code is reported, and the transaction has made one write and one
\* read, no more.
C3_ShortReadFails ==
    \A f \in Frames :
        ShortResponse(f) =>
            /\ f.res.st = "err" /\ f.res.err.type = "IOError"
            /\ f.res.err.msg =
                 IF Len(f.rsp) = 0
                 THEN <<"Communication error: ", "Timeout waiting for response">>
                 ELSE <<"Communication error: ", "Partial response">>
            /\ f.res.err.expected = 2 * Len(f.cmds) /\ f.res.err.got = Len(f.rsp)
            /\ f.checked = 0 /\ f.res.err.code = -1
            /\ f.nw = 1 /\ f.nr = 1

\* Three bytes of the four asked for, the first status word among them not
\* zero: a partial response, no code.
C3_Witness ==
    \E f \in Frames :
        /\ ShortResponse(f) /\ Len(f.cmds) = 2 /\ f.rsp = <<0, 1, 0>>
        /\ f.res.err.got = 3 /\ f.res.err.code = -1

\* C4: if transport.write raises during _send, over either transport, the
\* transaction has failed when the write is over and transport.read is never
\* called for it.
C4_WriteErrorNoRead ==
    \A f \in Frames :
        f.rawop = "write" =>
            /\ f.nr = 0 /\ f.rsize = -1 /\ f.rsp = <<>>
            /\ f.res.st = "err"
            /\ f.pc \notin {"send_read", "tcp_loop", "send_check"}

\* sendall raised over TCP: the transaction has failed and no read was made.
C4_Witness ==
    \E f \in Frames :
        /\ f.rawop = "write" /\ tkind = "TCP" /\ f.raw.type = "ConnectionResetError"
        /\ f.res.st = "err" /\ f.nr = 0

\* The error the transport raised to _send for what the channel raised.
TransportMsg(f) ==
    IF tkind = "Serial" THEN f.raw.msg
    ELSE IF f.rawop = "read" THEN <<"TCP read error: ">> \o f.raw.msg
    ELSE IF f.raw.type = "socket.timeout" THEN <<"Write timeout">>
    ELSE <<"TCP write error: ">> \o f.raw.msg

\* C8 as claimed: a transport I/O error raised by transport.write or
\* transport.read during _send reaches the caller as the very same error,
\* type and message unchanged.
C8_Original_ErrorAsIs ==
    \A f \in Frames :
        (f.rawop # "none" /\ Ended(f)) => f.res.err = f.raw

\* C8 as amended: such an error never reaches the caller as it is.  The caller
\* gets a new IOError whose message is "Communication error: " (for a write
\* timeout "Communication timeout: ") followed by the message of the error
\* the transport raised, which over TCP is itself a replacement:
\* "TCP write error: " or "TCP read error: " followed by the socket's message,
\* or "Write timeout".
C8_ErrorWrapped ==
    \A f \in Frames :
        (f.rawop # "none" /\ Ended(f)) =>
            /\ f.res.st = "err"
            /\ f.res.err.type = "IOError"
            /\ f.res.err # f.raw
            /\ f.res.err.msg =
                 (IF f.raw.type \in {"socket.timeout", "SerialTimeoutException"}
                  THEN <<"Communication timeout: ">>
                  ELSE <<"Communication error: ">>) \o TransportMsg(f)

\* recv raised ConnectionResetError: the caller gets an IOError that wraps the
\* transport's IOError that wraps it.
C8_Witness ==
    \E f \in Frames :
        /\ f.rawop = "read" /\ tkind = "TCP" /\ f.raw.type = "ConnectionResetError"
        /\ f.res.err.type = "IOError"
        /\ f.res.err.msg = <<"Communication error: ", "TCP read error: ",
                             "[Errno 104] Connection reset by peer">>

(***************************************************************************)
(* Claims about the whole program, checked under Spec.                     *)
(***************************************************************************)
\* The transaction of frame f has written its batch and has not ended.
InFlight(f) == f.pc \in {"send_read", "tcp_loop", "send_check"}

\* C5 as claimed: in every execution of main with its SIGINT handler, at most
\* one transaction is in flight on the transport: no batch is written while
\* an earlier batch's transaction has written and not yet ended.
C5_Original_OneInFlight ==
    Cardinality({i \in 1..Len(stack) : InFlight(stack[i])}) <= 1

\* C6 as claimed: a Device that was constructed has the close operation of
\* its channel performed exactly once over its lifetime: never a second
\* time, and once when the process has ended.
C6_Original_ClosedOnce ==
    dev = "live" =>
        /\ closeOps <= 1
        /\ proc = "terminated" => closeOps = 1

\* C7 as claimed: once sigint_handler has run, it has attempted its cleanup
\* transaction once, the transport is closed when the handler reaches its
\* sys.exit, and the process ends with exit status 0.
C7_Original_HandlerExitsZero ==
    /\ \A f \in Frames : f.kind = "handler" => f.nw <= 1
    /\ \A f \in Frames : (f.kind = "handler" /\ f.pc = "h_exit") => ~isOpen
    /\ (sigints >= 1 /\ proc \in {"exiting", "terminated"}) => exitCode = 0

(***************************************************************************)
(* Claims about the command encoder, checked under SpecEnc.                *)
(***************************************************************************)
InByte(x) == x \in 0..255

InWord(x) == x \in 0..65535

\* The two low bits of the table indices of TableIn, written out.
Low2(t) ==
    CASE t = -1 -> 3 [] t = 0 -> 0 [] t = 1 -> 1 [] t = 3 -> 3 [] t = 4 -> 0 [] t = 5 -> 1

Builders == {"direct", "bind_table", "write_table_entry", "set_offset", "gpio",
             "keepalive", "ldac", "register"}

\* Four bytes.
IsCommand(c) == Len(c) = 4 /\ \A k \in 1..4 : c[k] \in 0..255

\* A command read back: its two bytes and its big-endian 16-bit value.
Decode(c) == <<c[1], c[2], c[3] * 256 + c[4]>>

\* (B0, B1, value) of the encoder table for the builder call in.
TableFields(in) ==
    CASE in.op = "direct" -> <<in.a, 0, in.v>>
      [] in.op = "bind_table" -> <<in.a, 16 + Low2(in.b), 0>>
      [] in.op = "write_table_entry" -> <<16 + Low2(in.a), in.b, in.v>>
      [] in.op = "set_offset" -> <<255, in.a, 0>>
      [] in.op = "gpio" -> <<254, in.a, IF in.v # 0 THEN 1 ELSE 0>>
      [] in.op = "keepalive" -> <<253, 0, 0>>
      [] in.op = "ldac" -> <<252, 0, 0>>
      [] in.op = "register" -> <<251, in.a, in.v>>

\* Every field the call in packs fits its width (the table index, masked
\* before it is packed, always does).
FieldsFit(in) ==
    CASE in.op \in Builders ->
           LET t == TableFields(in) IN InByte(t[1]) /\ InByte(t[2]) /\ InWord(t[3])
      [] in.op = "write_table" ->
           \A i \in 1..Len(in.vals) : InByte(in.b + (i - 1)) /\ InWord(in.vals[i])
      [] in.op = "cfg_rs422" -> InWord(in.a) /\ InWord(in.v)
      [] OTHER -> TRUE

\* The fields of t truncated to their widths.
Truncated(t) == <<t[1] % 256, t[2] % 256, t[3] % 65536>>

\* C9 as claimed: the encoders never reject out-of-range input; every builder
\* and every facade call built on one returns 4-byte commands whose fields
\* are the inputs truncated to their field width.
C9_Original_NeverRejects ==
    encOut # NoOut =>
        /\ encOut.st = "ok"
        /\ encIn.op \in Builders =>
             IsCommand(encOut.val) /\ Decode(encOut.val) = Truncated(TableFields(encIn))
        /\ encIn.op = "write_table" =>
             /\ Len(encOut.val) = Len(encIn.vals)
             /\ \A i \in 1..Len(encIn.vals) :
                  /\ IsCommand(encOut.val[i])
                  /\ Decode(encOut.val[i]) =
                       Truncated(<<16 + Low2(encIn.a), encIn.b + (i - 1), encIn.vals[i]>>)
        /\ encIn.op = "cfg_rs422" =>
             /\ Len(encOut.val) = 2
             /\ Decode(encOut.val[1]) = Truncated(<<251, 1, encIn.a>>)
             /\ Decode(encOut.val[2]) = Truncated(<<251, 2, encIn.v>>)

\* C9 as amended: only the table index is truncated (to its two low bits).
\* A builder or facade call fails with struct.error, returning no command,
\* exactly when a field it packs is outside its width: channel, offset or
\* register outside 0..255, a value outside 0..65535, write_table with an
\* offset + i above 255, cfg_rs422 with a speed outside 0..2^32-1.  Otherwise
\* it returns 4-byte commands, one per value for write_table, two for
\* cfg_rs422.
C9_RejectsOutOfRange ==
    encOut # NoOut =>
        /\ encOut.st = "struct.error" <=> ~FieldsFit(encIn)
        /\ encOut.st = "struct.error" => encOut.val = <<>>
        /\ (encOut.st = "ok" /\ encIn.op \in Builders) => IsCommand(encOut.val)
        /\ (encOut.st = "ok" /\ encIn.op = "write_table") =>
             /\ Len(encOut.val) = Len(encIn.vals)
             /\ \A i \in 1..Len(encOut.val) : IsCommand(encOut.val[i])
        /\ (encOut.st = "ok" /\ encIn.op = "cfg_rs422") =>
             /\ Len(encOut.val) = 2
             /\ \A i \in 1..2 : IsCommand(encOut.val[i])

\* cfg_rs422 with speed = 2^32 (hi = 65536, lo = 0) raises struct.error.
C9_Witness ==
    /\ encIn.op = "cfg_rs422" /\ encIn.a = 65536 /\ encIn.v = 0
    /\ encOut.st = "struct.error"

\* C10: for every in-range input each of the eight builders returns exactly 4
\* bytes [B0, B1, value high byte, value low byte] that read back as the
\* encoder table's (B0, B1, value): direct DAC (channel, 0x00, value);
\* bind_table (channel, 0x10 + (table & 0x03), 0), so table 4 like table 0 and
\* table 5 like table 1; write-table entry (0x10 + (table & 0x03), offset,
\* value); set offset (0xFF, offset, 0); GPIO (0xFE, channel, 1 if on else 0);
\* keepalive (0xFD, 0, 0); LDAC (0xFC, 0, 0); register (0xFB, register, value).
C10_EncoderTable ==
    (encOut # NoOut /\ encIn.op \in Builders /\ FieldsFit(encIn)) =>
        /\ encOut.st = "ok"
        /\ IsCommand(encOut.val)
        /\ Decode(encOut.val) = TableFields(encIn)
        /\ encOut.val[3] = TableFields(encIn)[3] \div 256
        /\ encOut.val[4] = TableFields(encIn)[3] % 256

\* bind_table(255, 4) gives FF 10 00 00, as table 0 would.
C10_Witness ==
    /\ encIn.op = "bind_table" /\ encIn.a = 255 /\ encIn.b = 4
    /\ encOut.st = "ok" /\ encOut.val = <<255, 16, 0, 0>>

(***************************************************************************)
(* Claims about write_table and cfg_rs422, checked under SpecFacade.       *)
(***************************************************************************)
\* The facade call of frame f has built its batch (or has raised).
Called(f) == f.kind = "call" /\ f.pc \notin {"construct", "construct_failed", "facade"}

\* The one transaction of frame f carries, for write_table(table, offset,
\* values), one write-table entry per value, the offset counting up, and
\* asks for two response bytes per value.
WriteTableBatch(f, table, offset, values) ==
    /\ f.nsend = 1
    /\ Len(f.cmds) = Len(values)
    /\ \A i \in 1..Len(values) :
         /\ IsCommand(f.cmds[i])
         /\ Decode(f.cmds[i]) = <<16 + Low2(table), offset + (i - 1), values[i]>>
    /\ f.nw <= 1 /\ f.nr <= 1
    /\ f.nw = 1 => f.wbuf = join(f.cmds)
    /\ f.nr = 1 => f.rsize = 2 * Len(values)

\* C11 as claimed: write_table(table, offset, values) submits exactly one
\* transaction, whose batch has len(values) write-table-entry commands, the
\* i-th being (0x10 + (table & 0x03), offset + i, values[i]) in the order of
\* values, and whose read request is 2 * len(values) bytes.
C11_Original_WriteTableOneBatch ==
    \A f \in Frames :
        (Called(f) /\ encIn.op = "write_table") =>
            WriteTableBatch(f, encIn.a, encIn.b, encIn.vals)

\* C11 as amended: when every offset + i is in 0..255 and every value in
\* 0..65535, write_table(table, offset, values) submits exactly one
\* transaction, whose batch has len(values) write-table-entry commands, the
\* i-th being (0x10 + (table & 0x03), offset + i, values[i]) in the order of
\* values, and whose read request is 2 * len(values) bytes; otherwise it
\* raises struct.error and submits no transaction, nothing being written.
C11_WriteTableOneBatch ==
    \A f \in Frames :
        (Called(f) /\ encIn.op = "write_table") =>
            IF FieldsFit(encIn)
            THEN WriteTableBatch(f, encIn.a, encIn.b, encIn.vals)
            ELSE f.pc = "raised" /\ f.nsend = 0 /\ f.nw = 0 /\ f.nr = 0

\* write_table(5, 254, [0x0000, 0x1FFF]): entries 11 FE 00 00 and 11 FF 1F FF
\* in one batch, four bytes asked for, and the transaction has succeeded.
C11_Witness ==
    \E f \in Frames :
        /\ encIn.op = "write_table" /\ encIn.a = 5 /\ encIn.b = 254
        /\ encIn.vals = <<0, 8191>>
        /\ f.cmds = << <<17, 254, 0, 0>>, <<17, 255, 31, 255>> >>
        /\ f.nsend = 1 /\ f.rsize = 4 /\ f.res.st = "ok"

\* C12: cfg_rs422(speed), for every 32-bit speed (high half hi and low half
\* lo in 0..65535), submits exactly one transaction whose batch is exactly two
\* register writes in this order: register 1 with the high 16 bits of speed,
\* then register 2 with the low 16 bits; the read request is 4 bytes.
C12_CfgRs422TwoRegisters ==
    \A f \in Frames :
        (Called(f) /\ encIn.op = "cfg_rs422" /\ InWord(encIn.a) /\ InWord(encIn.v)) =>
            /\ f.nsend = 1
            /\ Len(f.cmds) = 2
            /\ IsCommand(f.cmds[1]) /\ IsCommand(f.cmds[2])
            /\ Decode(f.cmds[1]) = <<251, 1, encIn.a>>
            /\ Decode(f.cmds[2]) = <<251, 2, encIn.v>>
            /\ encIn.a < 32768 =>
                 LET speed == encIn.a * 65536 + encIn.v
                 IN /\ Decode(f.cmds[1])[3] = speed \div 65536
                    /\ Decode(f.cmds[2])[3] = speed % 65536
            /\ f.nw <= 1 /\ f.nr <= 1
            /\ f.nw = 1 => f.wbuf = f.cmds[1] \o f.cmds[2]
            /\ f.nr = 1 => f.rsize = 4

\* cfg_rs422(0x12345678): FB 01 12 34 then FB 02 56 78, four bytes asked for.
C12_Witness ==
    \E f \in Frames :
        /\ encIn.op = "cfg_rs422" /\ encIn.a = 4660 /\ encIn.v = 22136
        /\ f.cmds = << <<251, 1, 18, 52>>, <<251, 2, 86, 120>> >>
        /\ f.nsend = 1 /\ f.nr = 1 /\ f.rsize = 4 /\ f.res.st = "ok"

(***************************************************************************)
(* Claims about construction, checked under SpecFacade.                    *)
(***************************************************************************)
\* C13: if the transport cannot be established, Csv1Device construction
\* fails with an error and the caller gets no Device (and so makes no
\* transaction); over TCP the socket that was created has been closed, once,
\* when the error is raised, over the serial transport no port was opened:
\* no open channel is left behind.
C13_FailedConstructionLeavesNothing ==
    \A f \in Frames :
        f.pc = "construct_failed" =>
            /\ f.res.st = "err" /\ f.res.err.type \in {"ConnectionError", "SerialException"}
            /\ dev = "none"
            /\ ~isOpen
            /\ closeOps = (IF create_transport(target) = "TCP" THEN 1 ELSE 0)
            /\ f.nsend = 0 /\ f.nw = 0 /\ rx = <<>>

\* Construction for the target [::1]:8080 has failed: ConnectionError, the
\* socket closed.
C13_Witness ==
    \E f \in Frames :
        /\ f.pc = "construct_failed" /\ target[1] = "["
        /\ f.res.err.type = "ConnectionError" /\ closeOps = 1 /\ ~isOpen /\ dev = "none"

(***************************************************************************)
(* Claims about create_transport, checked under SpecTarget.                *)
(***************************************************************************)
RECURSIVE DigitRun(_, _)
\* The number of digits s holds from position i on, up to the first
\* character that is not one.
DigitRun(s, i) ==
    IF i <= Len(s) /\ s[i] \in Digits THEN 1 + DigitRun(s, i + 1) ELSE 0

\* s has the form dotted-decimal-quad ':' digits: four runs of one to three
\* digits separated by dots, a colon, and digits up to the end of s.
QuadPortForm(s) ==
    LET n1 == DigitRun(s, 1)
        p1 == n1 + 1
        n2 == DigitRun(s, p1 + 1)
        p2 == p1 + n2 + 1
        n3 == DigitRun(s, p2 + 1)
        p3 == p2 + n3 + 1
        n4 == DigitRun(s, p3 + 1)
        p4 == p3 + n4 + 1
        n5 == DigitRun(s, p4 + 1)
    IN /\ n1 \in 1..3 /\ p1 <= Len(s) /\ s[p1] = "."
       /\ n2 \in 1..3 /\ p2 <= Len(s) /\ s[p2] = "."
       /\ n3 \in 1..3 /\ p3 <= Len(s) /\ s[p3] = "."
       /\ n4 \in 1..3 /\ p4 <= Len(s) /\ s[p4] = ":"
       /\ n5 >= 1 /\ p4 + n5 = Len(s)

\* s has the form '[' non-']' characters ']:' digits, the digits up to the
\* end of s.
BracketPortForm(s) ==
    /\ Len(s) >= 1 /\ s[1] = "["
    /\ \E c \in 3..Len(s) :
         /\ s[c] = "]" /\ \A k \in 2..(c - 1) : s[k] # "]"
         /\ c + 1 <= Len(s) /\ s[c + 1] = ":"
         /\ DigitRun(s, c + 2) >= 1 /\ c + 1 + DigitRun(s, c + 2) = Len(s)

\* C14 as claimed: the transport kind create_transport chooses is a function
\* of the target string alone, defined for every string: the TCP transport
\* exactly when the string has the form dotted-decimal-quad ':' digits or
\* '[' non-']' characters ']:' digits, the serial transport for every other
\* string.
C14_Original_TcpExactlyForAddressForms ==
    \A f \in Frames :
        f.pc = "created" =>
            tkind = (IF QuadPortForm(target) \/ BracketPortForm(target)
                     THEN "TCP" ELSE "Serial")

(***************************************************************************)
(* Claims about TcpTransport.read inside _send, checked under SpecSend.    *)
(***************************************************************************)
\* TcpTransport.read has returned its buffer to the transaction of frame f.
TcpReturned(f) ==
    /\ tkind = "TCP" /\ f.nr = 1 /\ f.rawop = "none"
    /\ f.pc = "send_check" \/ Ended(f)

\* C15: TcpTransport.read(n) returns the bytes received so far, in stream
\* order and never more than n of them (what it holds, followed by what is
\* still unread, is the stream as it was); it returns exactly n bytes unless
\* a recv reported that the peer closed or timed out, and then it returns the
\* partial buffer accumulated up to that point, without raising; that short
\* result makes _send fail with its timeout or partial-response error.
C15_TcpReadPartialInOrder ==
    \A f \in Frames :
        /\ (tkind = "TCP" /\ f.pc = "tcp_loop") =>
             /\ Len(f.data) <= f.rsize
             /\ f.data \o rx = f.old \o f.own
        /\ TcpReturned(f) =>
             /\ Len(f.rsp) <= f.rsize
             /\ f.rsp = f.data
             /\ f.rsp \o rx = f.old \o f.own
             /\ f.rstop = "none" <=> Len(f.rsp) = f.rsize
             /\ (Ended(f) /\ f.rstop # "none") =>
                  /\ f.res.st = "err"
                  /\ f.res.err.msg =
                       <<"Communication error: ",
                         IF Len(f.rsp) = 0 THEN "Timeout waiting for response"
                         ELSE "Partial response">>
                  /\ f.res.err.got = Len(f.rsp)

\* Three of four bytes had arrived, 00 01 00, when recv timed out: read
\* returned them and _send failed with the partial-response error.
C15_Witness ==
    \E f \in Frames :
        /\ TcpReturned(f) /\ f.rstop = "timeout" /\ f.rsize = 4
        /\ f.rsp = <<0, 1, 0>> /\ rx = <<0>>
        /\ f.res.st = "err" /\ f.res.err.got = 3

(***************************************************************************)
(* Claims about the time a transaction blocks, checked under SpecTimed.    *)
(***************************************************************************)
\* C16 as claimed: every _send call, over either transport, has blocked for
\* at most one transport timeout interval when it returns or raises, and
\* the read half of a transaction never waits longer than one interval in
\* total, also when the response arrives in several chunks each just inside
\* the timeout.
C16_Original_OneTimeoutInterval ==
    \A f \in Frames :
        f.timed => f.waited <= TimeoutUnits /\ f.rwaited <= TimeoutUnits

(***************************************************************************)
(* Claims about successive transactions, checked under SpecSession.        *)
(***************************************************************************)
\* The transaction of frame f has written its batch.
Wrote(f) == f.kind = "call" /\ f.nw = 1 /\ f.rawop # "write"

\* The bytes the transaction of frame f has taken off the channel.
Consumed(f) == IF tkind = "TCP" THEN f.data ELSE f.rsp

\* C17: _send never flushes or resynchronises the stream: the read of each
\* transaction consumes the oldest unread bytes of the session.  So, after a
\* transaction has failed on a short read, the rest of the device's answer
\* arriving later, the next transaction finds stale bytes unread when it
\* writes and takes them as its own status words, and so does every later
\* transaction of the session: each is checked against bytes that were
\* unread before it wrote.
C17_StaleBytesNeverFlushed ==
    \A f \in Frames :
        Wrote(f) =>
            /\ Consumed(f) \o rx = f.old \o f.own
            /\ f.desync => f.old # <<>>
            /\ (f.pc = "send_check" \/ (Ended(f) /\ f.rawop = "none")) =>
                 LET k == Min(Len(f.old), Len(f.rsp))
                 IN SubSeq(f.rsp, 1, k) = SubSeq(f.old, 1, k)
            /\ Ended(f) => Len(rx) >= Len(f.old)

\* The first transaction timed out on a short read; the device answers the
\* second one's single command with 0x0000, and the second fails on the
\* status 0x0001 it read, which is the first one's.
C17_Witness ==
    \E f \in Frames :
        /\ f.nsend = 2 /\ ShortFail(f.prev) /\ f.desync
        /\ Len(f.cmds) = 1 /\ f.own = <<0, 0>> /\ f.old = <<0, 1>> /\ f.rsp = <<0, 1>>
        /\ StatusFail(f.res) /\ f.res.err.code = 1
        /\ rx = <<0, 0>>

\* C18: when a transaction fails on a device status error, whatever the
\* index of the failing status word, all 2N response bytes it asked for have
\* been consumed from the stream: as many bytes are unread as were when it
\* wrote.  So a transaction that follows one that found nothing unread and
\* failed on a status finds nothing unread either: its read starts at the
\* first status byte of its own batch.
C18_StatusFailureKeepsAlignment ==
    \A f \in Frames :
        /\ (f.kind = "call" /\ StatusFail(f.res)) =>
             /\ Len(f.rsp) = 2 * Len(f.cmds)
             /\ f.rsp \o rx = f.old \o f.own
             /\ Len(rx) = Len(f.old)
             /\ f.old = <<>> => rx = <<>>
        /\ (Wrote(f) /\ StatusFail(f.prev) /\ f.plag = 0) =>
             /\ f.old = <<>>
             /\ (f.pc = "send_check" \/ (Ended(f) /\ f.rawop = "none")) =>
                  f.rsp = SubSeq(f.own, 1, Len(f.rsp))

\* A transaction failed on the status 0x0100, nothing having been unread when
\* it wrote; the next one, of two commands, read its own four bytes 00 00 00
\* 00 and succeeded, leaving nothing unread.
C18_Witness ==
    \E f \in Frames :
        /\ f.nsend = 2 /\ StatusFail(f.prev) /\ f.prev.err.code = 256 /\ f.plag = 0
        /\ f.old = <<>> /\ f.own = <<0, 0, 0, 0>> /\ f.rsp = <<0, 0, 0, 0>>
        /\ f.res.st = "ok" /\ rx = <<>>

\* The cause of the failure of the ended transaction of frame f.
FailureCause(f) ==
    IF f.rawop = "write"
    THEN IF f.raw.type \in {"socket.timeout", "SerialTimeoutException"}
         THEN "write timeout" ELSE "write error"
    ELSE IF f.rawop = "read" THEN "read error"
    ELSE IF Len(f.rsp) = 0 /\ Len(f.cmds) > 0 THEN "no response"
    ELSE IF Len(f.rsp) # 2 * Len(f.cmds) THEN "partial response"
    ELSE "status"

\* C19: every failure that arises inside _send, whatever its cause (write
\* error, read error, timeout exception of the write, zero-byte or partial
\* response, non-zero device status), reaches the caller as an IOError: a
\* transaction ends with success or with an IOError and nothing else, an
\* error raised by the transport always ends it with a failure, and a timeout
\* has the same type as every other failure.
C19_EveryFailureIsIOError ==
    \A f \in Frames :
        Ended(f) =>
            /\ f.res.st \in {"ok", "err"}
            /\ f.res.st = "ok" => f.res.err = NoErr /\ f.rawop = "none"
            /\ f.res.st = "err" =>
                 /\ f.res.err.type = "IOError"
                 /\ FailureCause(f) \in {"write timeout", "write error", "read error",
                                        "no response", "partial response", "status"}
                 /\ FailureCause(f) = "status" => f.res.err.code > 0
            /\ f.rawop # "none" => f.res.st = "err"

\* Over TCP sendall timed out: the transport raised SerialTimeoutException
\* ("Write timeout") and the caller got an IOError, "Communication timeout: "
\* in front of the message.
C19_Witness ==
    \E f \in Frames :
        /\ tkind = "TCP" /\ f.rawop = "write" /\ f.raw.type = "socket.timeout"
        /\ FailureCause(f) = "write timeout"
        /\ f.res.st = "err" /\ f.res.err.type = "IOError"
        /\ f.res.err.msg = <<"Communication timeout: ", "Write timeout">>

\* C20: a transaction on an empty batch, as write_table with an empty list of
\* values produces, writes a buffer of no bytes, asks for 0 = 2 * len(batch)
\* bytes, gets no byte from the device and unpacks no status word, and, when
\* neither call of the transport raises, reports success; over either
\* transport.
C20_EmptyBatchSucceeds ==
    \A f \in Frames :
        (Called(f) /\ f.nsend = 1 /\ f.cmds = <<>>) =>
            /\ encIn.op = "write_table" /\ encIn.vals = <<>>
            /\ f.nw <= 1 /\ f.nr <= 1
            /\ f.nw = 1 => f.wbuf = <<>>
            /\ f.nr = 1 => f.rsize = 0 /\ f.rsize = 2 * Len(f.cmds)
            /\ f.own = <<>> /\ f.data = <<>> /\ f.rsp = <<>> /\ f.rstop = "none"
            /\ f.checked = 0
            /\ Ended(f) => f.nw = 1
            /\ (Ended(f) /\ f.rawop = "none") => f.nr = 1 /\ f.res.st = "ok"

\* write_table(1, 48, []) over TCP: one write of no bytes, one read of 0
\* bytes, success.
C20_Witness ==
    \E f \in Frames :
        /\ tkind = "TCP" /\ encIn.op = "write_table" /\ encIn.a = 1 /\ encIn.b = 48
        /\ encIn.vals = <<>>
        /\ Called(f) /\ f.cmds = <<>> /\ f.nw = 1 /\ f.wbuf = <<>>
        /\ f.nr = 1 /\ f.rsize = 0 /\ f.res.st = "ok" /\ f.checked = 0

====
